---- MODULE Spec2Model ----
(***************************************************************************)
(* The block-fetch cache of rufs (fetch.go): one pfHandle with its block   *)
(* cache, its in-flight markers and its fetch goroutines, two callers of   *)
(* pfHandle.Read (one direct, one through a pfStream), and the remote      *)
(* block read of server.go.                                                *)
(***************************************************************************)
EXTENDS Integers, Sequences, FiniteSets, TLC

\* ------------------------------------------------------------------ bounds
BlockSize == 2        \* h.fetcher.blockSize (1 << fetch_block_size_power), scaled down
MaxSize == 5          \* the content sizes modelled are MaxSize and MaxSize + 1
MaxRead == 3          \* largest size argument of a Read
MaxPrefetch == 1      \* largest value of the flag prefetch_blocks
MaxCands == 2         \* longest candidate list handed to NewHandle

\* ----------------------------------------------------------------- helpers
Min(a, b) == IF a < b THEN a ELSE b

\* A Go slice that may be nil: <<>> is nil, <<x>> holds x.
Nil == <<>>
Some(x) == <<x>>

\* The identities of the peers there are.
PeerSet == {"p1", "p2", "p3"}

\* The goroutines that call Read: DirectReader calls pfHandle.Read with a
\* context of its own, StreamReader calls it through a pfStream.
DirectReader == "direct"
StreamReader == "stream"
Readers == {DirectReader, StreamReader}

Sizes == {MaxSize, MaxSize + 1}

\* The goroutines that call Fetcher.NewHandle.
Callers == {"c1", "c2"}

\* The candidate lists handed to NewHandle: up to MaxCands peers in any order.
CandLists == UNION {[1..k -> PeerSet] : k \in 0..MaxCands}

\* What the two pings of MeasureLatency can do: both succeed, the first
\* fails, the second fails.
Probes == {"ok", "fail1", "fail2"}

VARIABLES
    size,            \* h.size
    peers,           \* h.peers: the candidate peers in listed order
    registry,        \* the keys of h.fetcher.peers
    faulty,          \* the peers whose block reads may return an error
    prefetchBlocks,  \* *prefetchBlocks
    cache,           \* h.cache: block index -> Nil or Some(bytes)
    active,          \* h.active: block index -> 0 (nil) or a channel
    closed,          \* the channels that have been closed
    tasks,           \* the running fetch goroutines
    lastErr,         \* h.lastErr
    rd,              \* per reader: its position in pfHandle.Read and its result
    stream,          \* the pfStream of StreamReader
    panicked,        \* the process has died of a run-time panic
    connectable,     \* the peers NewRUFSClient can connect to
    latency,         \* per peer: the latency field of its entry in f.peers
    nh               \* per caller of NewHandle: its position and its locals

vars == <<size, peers, registry, faulty, prefetchBlocks, cache, active, closed, tasks,
          lastErr, rd, stream, panicked, connectable, latency, nh>>

\* make([][]byte, blocks) with blocks := size/blockSize + 1
NumSlots(sz) == sz \div BlockSize + 1
Slots == 0..(NumSlots(size) - 1)

\* The content behind h.hash: byte i (from 0) has the value i.
Content == [i \in 1..size |-> i - 1]

\* RUFSService.Read: up to Size bytes of the file from Offset on.
PeerRead(off) == SubSeq(Content, off + 1, Min(off + BlockSize, size))

\* ----------------------------------------------------------------- channels
\* A channel is a number. The channels still referenced: by h.active, by the
\* wait-list of a Read, and the one each running fetch goroutine made.
Refs(act, tks, rdd) ==
    ({act[b] : b \in DOMAIN act} \ {0})
    \cup {t.ch : t \in tks}
    \cup UNION {{rdd[r].unf[i] : i \in 1..Len(rdd[r].unf)} : r \in Readers}

\* make(chan void) in h.fetch yields a channel nobody holds. A channel made
\* for block b is only ever held by h.active[b], by the goroutine fetching b and
\* by the Reads waiting for b, so the numbers b * ChansPerBlock + 1 .. + ChansPerBlock
\* are kept for block b and the smallest one not referenced is taken.
ChansPerBlock == Cardinality(Readers) + 1
NewChan(b) ==
    LET free == {b * ChansPerBlock + k : k \in 1..ChansPerBlock} \ Refs(active, tasks, rd)
    IN  CHOOSE c \in free : \A x \in free : c <= x

\* ------------------------------------------------------- Fetcher.NewHandle
\* f.peers as a table of latencies: "none" without an entry, "unset" for an
\* entry whose latency is nil, "set" for one with a measured latency.
LinksOf(reg) == [p \in PeerSet |-> IF p \in reg THEN "set" ELSE "none"]

\* A goroutine that is not inside NewHandle and has not called it yet.
IdleCall ==
    [pc |-> "idle", cands |-> <<>>, i |-> 1, found |-> FALSE, r |-> Nil,
     perr |-> "nil", probe |-> "none", err |-> "nil"]

IdleCallers ==
    /\ nh = [c \in Callers |-> IdleCall]
    /\ latency = LinksOf(registry)

\* pfPeer.MeasureLatency: the latency it leaves and the error it returns.
MeasureLatency(probe) ==
    IF probe = "ok" THEN [latency |-> "set", err |-> "nil"]
    ELSE [latency |-> "unset", err |-> "ErrPing"]

\* Fetcher.NewPeer: (nil, err) when the connection fails; otherwise the new
\* pfPeer after r.MeasureLatency(), whose error is dropped, and a nil error.
NewPeer(p, probe) ==
    IF p \notin connectable
    THEN [r |-> Nil, err |-> "ErrConnect"]
    ELSE [r |-> Some([ident |-> p, latency |-> MeasureLatency(probe).latency]),
          err |-> "nil"]

\* A NewHandle that takes every candidate for usable, connected or not.
UsableAlways(res) == TRUE

\* NewHandle's test of NewPeer's result: err == nil.
Usable(res) == res.err = "nil"

\* NewHandle's return: the handle, or the error when no candidate was found.
NewHandleResult(found) == IF found THEN "nil" ELSE "ErrNoPeer"

\* NewHandle from its entry to the loop over the candidates.
NewHandleBegin(c, cands) ==
    /\ ~panicked
    /\ nh[c].pc \in {"idle", "done"}
    /\ nh' = [nh EXCEPT ![c] = [IdleCall EXCEPT !.pc = "loop", !.cands = cands]]
    /\ UNCHANGED <<connectable, latency, size, peers, registry, faulty, prefetchBlocks,
                   cache, active, closed, tasks, lastErr, rd, stream, panicked>>

\* The range clause: the lookup f.peers[p] of the next candidate begins, or
\* the loop is over and NewHandle returns.
NewHandleLoop(c) ==
    /\ ~panicked
    /\ nh[c].pc = "loop"
    /\ nh' = [nh EXCEPT ![c] =
                IF nh[c].i > Len(nh[c].cands)
                THEN [nh[c] EXCEPT !.pc = "done", !.err = NewHandleResult(nh[c].found)]
                ELSE [nh[c] EXCEPT !.pc = "lookup"]]
    /\ UNCHANGED <<connectable, latency, size, peers, registry, faulty, prefetchBlocks,
                   cache, active, closed, tasks, lastErr, rd, stream, panicked>>

\* The lookup f.peers[p] ends: found, or on to NewPeer.
LookupDone(c) ==
    /\ ~panicked
    /\ nh[c].pc = "lookup"
    /\ nh' = [nh EXCEPT ![c] =
                IF nh[c].cands[nh[c].i] \in registry
                THEN [nh[c] EXCEPT !.pc = "loop", !.found = TRUE, !.i = nh[c].i + 1]
                ELSE [nh[c] EXCEPT !.pc = "connect"]]
    /\ UNCHANGED <<connectable, latency, size, peers, registry, faulty, prefetchBlocks,
                   cache, active, closed, tasks, lastErr, rd, stream, panicked>>

\* r, err := f.NewPeer(p): the connection and the two pings.
Connect(c) ==
    /\ ~panicked
    /\ nh[c].pc = "connect"
    /\ \E probe \in Probes :
          LET res == NewPeer(nh[c].cands[nh[c].i], probe)
          IN  nh' = [nh EXCEPT ![c] =
                        IF Usable(res)
                        THEN [nh[c] EXCEPT !.pc = "store", !.r = res.r, !.perr = res.err,
                                           !.probe = IF res.r = Nil THEN "none" ELSE probe]
                        ELSE [nh[c] EXCEPT !.pc = "loop", !.r = res.r, !.perr = res.err,
                                           !.probe = "none", !.i = nh[c].i + 1]]
    /\ UNCHANGED <<connectable, latency, size, peers, registry, faulty, prefetchBlocks,
                   cache, active, closed, tasks, lastErr, rd, stream, panicked>>

\* The assignment f.peers[p] = r begins.
InsertBegin(c) ==
    /\ ~panicked
    /\ nh[c].pc = "store"
    /\ nh' = [nh EXCEPT ![c].pc = "insert"]
    /\ UNCHANGED <<connectable, latency, size, peers, registry, faulty, prefetchBlocks,
                   cache, active, closed, tasks, lastErr, rd, stream, panicked>>

\* The assignment f.peers[p] = r ends; found = true.
InsertDone(c) ==
    /\ ~panicked
    /\ nh[c].pc = "insert"
    /\ LET p == nh[c].cands[nh[c].i]
       IN  /\ registry' = registry \cup {p}
           /\ latency' = [latency EXCEPT ![p] =
                             IF nh[c].r = Nil THEN "unset" ELSE nh[c].r[1].latency]
    /\ nh' = [nh EXCEPT ![c] =
                [nh[c] EXCEPT !.pc = "loop", !.found = TRUE, !.i = nh[c].i + 1]]
    /\ UNCHANGED <<connectable, size, peers, faulty, prefetchBlocks,
                   cache, active, closed, tasks, lastErr, rd, stream, panicked>>

\* The callers inside an assignment to f.peers, and those inside any access.
MapWriters == {c \in Callers : nh[c].pc = "insert"}
MapUsers == {c \in Callers : nh[c].pc \in {"lookup", "insert"}}

\* f.peers has no lock. When an assignment to the map overlaps another access,
\* the run-time may notice (fatal error: concurrent map writes / concurrent
\* map read and map write) and end the process; or it may not.
MapFault ==
    /\ ~panicked
    /\ \E a \in MapWriters : MapUsers \ {a} # {}
    /\ panicked' = TRUE
    /\ UNCHANGED <<nh, connectable, latency, size, peers, registry, faulty,
                   prefetchBlocks, cache, active, closed, tasks, lastErr, rd, stream>>

\* ------------------------------------------------------------- pfHandle.Read
\* The block indices of Read's list `blocks` (the list holds b*bs64).
FirstBlock(off) == off \div BlockSize
LastBlock(off, n) == (off + n + BlockSize - 1) \div BlockSize - 1
Blocks(off, n) ==
    [i \in 1..(LastBlock(off, n) - FirstBlock(off) + 1) |-> FirstBlock(off) + i - 1]
BlockSet(off, n) == FirstBlock(off)..LastBlock(off, n)

\* A Read that launches a fetch whenever the block is not cached, marker or not.
NeedsFetchIgnoringMarker(b) == cache[b] = Nil

\* Read's test before h.fetch(o): the block is not cached and has no marker.
NeedsFetch(b) == cache[b] = Nil /\ active[b] = 0

\* The needed blocks Read launches a fetch for.
Launched(off, n) == {b \in BlockSet(off, n) : NeedsFetch(b)}

\* A purge of the first needed block instead of the one before it.
PurgedFirstNeeded(off) ==
    LET b == FirstBlock(off)
    IN  IF b > 0 /\ cache[b] # Nil THEN {b} ELSE {}

\* A purge that looks at the marker of the block instead of its cache slot.
PurgedByMarker(off) ==
    LET b == FirstBlock(off) - 1
    IN  IF b > 0 /\ active[b] # 0 THEN {b} ELSE {}

\* "Ugly-ass purging": the block Read drops, as a set (empty when none).
Purged(off) ==
    LET b == FirstBlock(off) - 1
    IN  IF b > 0 /\ cache[b] # Nil THEN {b} ELSE {}

\* A prefetch that does not look at the marker of the block.
PrefetchedIgnoringMarker(off, n) ==
    {b \in (LastBlock(off, n) + 1)..(LastBlock(off, n) + prefetchBlocks) :
        /\ b * BlockSize < size
        /\ cache[b] = Nil}

\* The blocks Read prefetches: they lie after the needed ones, so neither the
\* launches nor the purge of this Read have touched their slots.
Prefetched(off, n) ==
    {b \in (LastBlock(off, n) + 1)..(LastBlock(off, n) + prefetchBlocks) :
        /\ b * BlockSize < size
        /\ cache[b] = Nil
        /\ active[b] = 0}

\* A fetch goroutine as it starts: realFetch is about to try peer number 1.
\* ch is the channel h.fetch made for it, tried the peers it has called.
NewTask(ch, b) ==
    [ch |-> ch, b |-> b, i |-> 1, retErr |-> "ErrNoPeer", st |-> "run",
     buf |-> Nil, tried |-> <<>>]

\* h.active after the first loop of Read.
ActiveAfterLaunch(launched) ==
    [b \in Slots |-> IF b \in launched THEN NewChan(b) ELSE active[b]]

\* Read's wait-list `unfetched`: the markers of the needed blocks not cached.
RECURSIVE UnfetchedFrom(_, _, _)
UnfetchedFrom(blocks, act, i) ==
    IF i > Len(blocks) THEN <<>>
    ELSE (IF cache[blocks[i]] = Nil THEN <<act[blocks[i]]>> ELSE <<>>)
         \o UnfetchedFrom(blocks, act, i + 1)
Unfetched(blocks, act) == UnfetchedFrom(blocks, act, 1)

\* Read indexes h.cache and h.active with every needed block, and blocks[0].
IndexPanics(off, n) ==
    \/ LastBlock(off, n) < FirstBlock(off)
    \/ LastBlock(off, n) >= NumSlots(size)

\* Is the context of reader r cancelled?
Cancelled(r) == IF r = StreamReader THEN stream.cancelled ELSE rd[r].cancelled

\* What the return of pfHandle.Read does to the caller. The direct caller keeps
\* the result; pfStream.Read copies it out, advances s.offset and reports EOF.
Returned(r, res, err) ==
    [rd EXCEPT ![r] = [@ EXCEPT !.pc = "ret", !.unf = <<>>, !.res = res, !.err = err]]

StreamAfter(r, n, res, err) ==
    IF r # StreamReader THEN stream
    ELSE IF err # "nil" THEN [stream EXCEPT !.n = 0, !.err = err]
    ELSE LET data == IF res = Nil THEN <<>> ELSE res[1]
         IN  [stream EXCEPT
                 !.out = @ \o SubSeq(data, 1, Min(Len(data), n)),
                 !.n = Len(data),
                 !.offset = @ + Len(data),
                 !.err = IF Len(data) < n THEN "EOF" ELSE "nil"]

\* A test that lets a Read at the very end of the content through.
PastEndStrict(off) == off > size

\* Read's first test: the offset is at or beyond the end of the content.
PastEnd(off) == off >= size

\* The handle as NewHandle leaves it, its callers idle.
InitHandle ==
    /\ cache = [b \in 0..(NumSlots(size) - 1) |-> Nil]
    /\ active = [b \in 0..(NumSlots(size) - 1) |-> 0]
    /\ closed = {}
    /\ tasks = {}
    /\ lastErr = "nil"
    /\ rd = [r \in Readers |->
                [pc |-> "idle", off |-> 0, n |-> 0, unf |-> <<>>, res |-> Nil,
                 err |-> "nil", cancelled |-> FALSE]]
    /\ stream = [open |-> FALSE, start |-> 0, offset |-> 0, cancelled |-> FALSE,
                 out |-> <<>>, n |-> 0, err |-> "nil"]
    /\ panicked = FALSE

\* pfHandle.Read from its entry to the unlock before the wait loop.
ReadBegin(r, off, n) ==
    /\ ~panicked
    /\ rd[r].pc # "wait"
    /\ IF PastEnd(off)
       THEN /\ rd' = [rd EXCEPT ![r] =
                        [pc |-> "ret", off |-> off, n |-> n, unf |-> <<>>,
                         res |-> Nil, err |-> "nil", cancelled |-> FALSE]]
            /\ stream' = StreamAfter(r, n, Nil, "nil")
            /\ UNCHANGED <<cache, active, tasks, panicked>>
       ELSE IF IndexPanics(off, n)
       THEN /\ panicked' = TRUE
            /\ UNCHANGED <<cache, active, tasks, rd, stream>>
       ELSE LET launched == Launched(off, n)
                purged == Purged(off)
                pre == Prefetched(off, n)
                act1 == ActiveAfterLaunch(launched)
            IN  /\ cache' = [b \in Slots |-> IF b \in purged THEN Nil ELSE cache[b]]
                /\ active' = [b \in Slots |->
                                IF b \in purged THEN 0
                                ELSE IF b \in pre THEN NewChan(b)
                                ELSE act1[b]]
                /\ tasks' = tasks \cup
                       {NewTask(NewChan(b), b) : b \in launched \cup pre}
                /\ rd' = [rd EXCEPT ![r] =
                            [pc |-> "wait", off |-> off, n |-> n,
                             unf |-> Unfetched(Blocks(off, n), act1),
                             res |-> Nil, err |-> "nil", cancelled |-> FALSE]]
                /\ UNCHANGED <<stream, panicked>>
    /\ UNCHANGED <<nh, connectable, latency, size, peers, registry, faulty, prefetchBlocks, lastErr>>
    /\ closed' = closed \cap Refs(active', tasks', rd')

\* The buffers Read gathers under the lock, in block order.
Gathered(off, n) == [i \in 1..Len(Blocks(off, n)) |-> cache[Blocks(off, n)[i]][1]]

\* A trimming that cuts the tail but keeps the bytes before the offset.
TrimmedKeepingHead(off, n, bufs) ==
    LET bo == off - FirstBlock(off) * BlockSize
        cut == (bo + n) % BlockSize
        l == Len(bufs)
    IN  IF cut > 0 /\ Len(bufs[l]) > cut
        THEN [bufs EXCEPT ![l] = SubSeq(@, 1, cut)]
        ELSE bufs

\* A trimming that drops the bytes before the offset but never cuts the tail.
TrimmedWithoutCut(off, n, bufs) ==
    LET bo == off - FirstBlock(off) * BlockSize
    IN  IF bo > 0
        THEN [bufs EXCEPT ![1] = SubSeq(@, bo + 1, Len(@))]
        ELSE bufs

\* Read's trimming: the tail of the last buffer, then the head of the first.
Trimmed(off, n, bufs) ==
    LET bo == off - FirstBlock(off) * BlockSize
        cut == (bo + n) % BlockSize
        l == Len(bufs)
        cutBufs == IF cut > 0 /\ Len(bufs[l]) > cut
                   THEN [bufs EXCEPT ![l] = SubSeq(@, 1, cut)]
                   ELSE bufs
    IN  IF bo > 0
        THEN [cutBufs EXCEPT ![1] = SubSeq(@, bo + 1, Len(@))]
        ELSE cutBufs

\* bufs[0][bo:] panics when bo is beyond the (already cut) first buffer.
SlicePanics(off, n, bufs) ==
    LET bo == off - FirstBlock(off) * BlockSize
        cut == (bo + n) % BlockSize
        len1 == IF Len(bufs) = 1 /\ cut > 0 /\ Len(bufs[1]) > cut
                THEN cut ELSE Len(bufs[1])
    IN  bo > len1

\* ret: the one buffer, or the buffers appended in order.
RECURSIVE AppendedFrom(_, _)
AppendedFrom(bufs, i) ==
    IF i > Len(bufs) THEN <<>> ELSE bufs[i] \o AppendedFrom(bufs, i + 1)
Assembled(bufs) == AppendedFrom(bufs, 1)

\* case <-c of Read's select: the marker waited on has been closed.
ReadWait(r) ==
    /\ ~panicked
    /\ rd[r].pc = "wait"
    /\ rd[r].unf # <<>>
    /\ Head(rd[r].unf) \in closed
    /\ rd' = [rd EXCEPT ![r].unf = Tail(@)]
    /\ UNCHANGED <<nh, connectable, latency, size, peers, registry, faulty, prefetchBlocks, cache, active, tasks,
                   lastErr, stream, panicked>>
    /\ closed' = closed \cap Refs(active', tasks', rd')

\* A select that looks at the context only once the marker has been closed.
ReadInterruptAfterMarker(r) ==
    /\ ~panicked
    /\ rd[r].pc = "wait"
    /\ rd[r].unf # <<>>
    /\ Head(rd[r].unf) \in closed
    /\ Cancelled(r)
    /\ rd' = Returned(r, Nil, "ErrInterrupted")
    /\ stream' = StreamAfter(r, rd[r].n, Nil, "ErrInterrupted")
    /\ UNCHANGED <<nh, connectable, latency, size, peers, registry, faulty, prefetchBlocks, cache, active, tasks,
                   lastErr, panicked>>
    /\ closed' = closed \cap Refs(active', tasks', rd')

\* A cancellation that also abandons the fetches the Read was waiting for.
ReadInterruptAbandoningFetch(r) ==
    /\ ~panicked
    /\ rd[r].pc = "wait"
    /\ rd[r].unf # <<>>
    /\ Cancelled(r)
    /\ rd' = Returned(r, Nil, "ErrInterrupted")
    /\ stream' = StreamAfter(r, rd[r].n, Nil, "ErrInterrupted")
    /\ tasks' = {t \in tasks : \A i \in 1..Len(rd[r].unf) : rd[r].unf[i] # t.ch}
    /\ active' = [b \in Slots |->
                    IF \E i \in 1..Len(rd[r].unf) : rd[r].unf[i] = active[b]
                       /\ active[b] \notin closed
                    THEN 0 ELSE active[b]]
    /\ UNCHANGED <<nh, connectable, latency, size, peers, registry, faulty, prefetchBlocks, cache,
                   lastErr, panicked>>
    /\ closed' = closed \cap Refs(active', tasks', rd')

\* case <-ctx.Done() of Read's select: return nil, ErrInterrupted.
ReadInterrupt(r) ==
    /\ ~panicked
    /\ rd[r].pc = "wait"
    /\ rd[r].unf # <<>>
    /\ Cancelled(r)
    /\ rd' = Returned(r, Nil, "ErrInterrupted")
    /\ stream' = StreamAfter(r, rd[r].n, Nil, "ErrInterrupted")
    /\ UNCHANGED <<nh, connectable, latency, size, peers, registry, faulty, prefetchBlocks, cache, active, tasks,
                   lastErr, panicked>>
    /\ closed' = closed \cap Refs(active', tasks', rd')

\* Read after its wait loop: gather under the lock, trim, assemble, return.
ReadGather(r) ==
    /\ ~panicked
    /\ rd[r].pc = "wait"
    /\ rd[r].unf = <<>>
    /\ LET off == rd[r].off
           n == rd[r].n
       IN  IF \E b \in BlockSet(off, n) : cache[b] = Nil
           THEN /\ rd' = Returned(r, Nil, lastErr)
                /\ stream' = StreamAfter(r, n, Nil, lastErr)
                /\ UNCHANGED panicked
           ELSE IF SlicePanics(off, n, Gathered(off, n))
           THEN /\ panicked' = TRUE
                /\ UNCHANGED <<rd, stream>>
           ELSE LET ret == Assembled(Trimmed(off, n, Gathered(off, n)))
                IN  /\ rd' = Returned(r, Some(ret), "nil")
                    /\ stream' = StreamAfter(r, n, Some(ret), "nil")
                    /\ UNCHANGED panicked
    /\ UNCHANGED <<nh, connectable, latency, size, peers, registry, faulty, prefetchBlocks, cache, active, closed,
                   tasks, lastErr>>

\* A direct call of pfHandle.Read with a context of its own.
Read(off, n) ==
    /\ ReadBegin(DirectReader, off, n)

\* The caller cancels the context of its Read.
Cancel ==
    /\ ~panicked
    /\ rd[DirectReader].pc = "wait"
    /\ ~rd[DirectReader].cancelled
    /\ rd' = [rd EXCEPT ![DirectReader].cancelled = TRUE]
    /\ UNCHANGED <<nh, connectable, latency, size, peers, registry, faulty, prefetchBlocks, cache, active, closed,
                   tasks, lastErr, stream, panicked>>

\* --------------------------------------------------------------- pfStream
\* h.Stream(offset): a new stream with a context of its own.
Stream(o) ==
    /\ ~panicked
    /\ rd[StreamReader].pc # "wait"
    /\ stream' = [open |-> TRUE, start |-> o, offset |-> o, cancelled |-> FALSE,
                  out |-> <<>>, n |-> 0, err |-> "nil"]
    /\ UNCHANGED <<nh, connectable, latency, size, peers, registry, faulty, prefetchBlocks, cache, active, closed,
                   tasks, lastErr, rd, panicked>>

\* pfStream.Read(p) with len(p) = L, up to the wait inside pfHandle.Read.
StreamRead(L) ==
    /\ stream.open
    /\ ReadBegin(StreamReader, stream.offset, L)

\* pfStream.Close: s.cancel(); h.Close() does nothing.
StreamClose ==
    /\ ~panicked
    /\ stream.open
    /\ ~stream.cancelled
    /\ stream' = [stream EXCEPT !.cancelled = TRUE]
    /\ UNCHANGED <<nh, connectable, latency, size, peers, registry, faulty, prefetchBlocks, cache, active, closed,
                   tasks, lastErr, rd, panicked>>

\* ------------------------------------------------------- the fetch goroutine
\* A loop that calls every candidate, registered or not.
NextPeerUnregistered(i) == IF i <= Len(peers) THEN i ELSE 0

\* realFetch's loop skips the peers that have no entry in h.fetcher.peers.
NextPeer(i) ==
    LET js == {j \in i..Len(peers) : peers[j] \in registry}
    IN  IF js = {} THEN 0 ELSE CHOOSE j \in js : \A k \in js : j <= k

\* The error a failing block read of peer p returns.
PeerErr(p) == p

\* ret.Data as the client hands it over: an empty reply may arrive as nil.
Replies(data) == IF data = <<>> THEN {Nil, Some(<<>>)} ELSE {Some(data)}

\* One turn of realFetch's loop: the lookups h.fetcher.peers[p] up to the next
\* registered peer and the block read of that peer. The lookups take no lock:
\* when they overlap an assignment to the map the run-time may end the process.
FetchPeer(t) ==
    /\ ~panicked
    /\ t.st = "run"
    /\ \/ /\ LET j == NextPeer(t.i)
             IN  IF j = 0
                 THEN tasks' = (tasks \ {t}) \cup {[t EXCEPT !.st = "failed"]}
                 ELSE \/ \E buf \in Replies(PeerRead(t.b * BlockSize)) :
                              tasks' = (tasks \ {t}) \cup
                                  {[t EXCEPT !.st = "got", !.buf = buf, !.i = j,
                                             !.tried = Append(@, peers[j])]}
                      \/ /\ peers[j] \in faulty
                         /\ tasks' = (tasks \ {t}) \cup
                              {[t EXCEPT !.retErr = PeerErr(peers[j]),
                                         !.i = j + 1,
                                         !.tried = Append(@, peers[j]),
                                         !.st = IF NextPeer(j + 1) = 0
                                                THEN "failed" ELSE "run"]}
          /\ UNCHANGED panicked
       \/ /\ MapWriters # {}
          /\ panicked' = TRUE
          /\ UNCHANGED tasks
    /\ UNCHANGED <<nh, connectable, latency, size, peers, registry, faulty, prefetchBlocks,
                   cache, active, closed, lastErr, rd, stream>>

\* The goroutine of h.fetch after realFetch: under the lock, store the buffer
\* or the error, then close(h.active[b]).
FetchComplete(t) ==
    /\ ~panicked
    /\ t.st \in {"got", "failed"}
    /\ tasks' = tasks \ {t}
    /\ lastErr' = IF t.st = "failed" THEN t.retErr ELSE lastErr
    /\ cache' = IF t.st = "got" THEN [cache EXCEPT ![t.b] = t.buf] ELSE cache
    /\ UNCHANGED <<nh, connectable, latency, size, peers, registry, faulty, prefetchBlocks, active, rd, stream>>
    /\ IF active[t.b] = 0 \/ active[t.b] \in closed
       THEN panicked' = TRUE /\ UNCHANGED closed
       ELSE /\ closed' = (closed \cup {active[t.b]}) \cap Refs(active', tasks', rd')
            /\ UNCHANGED panicked

\* ------------------------------------------------------------ specifications
\* The offsets at which a block starts.
BlockStarts == {b * BlockSize : b \in 0..((size - 1) \div BlockSize)}

\* Two concurrent callers of one handle with one peer: a direct caller and a
\* stream, reading whole runs of blocks.
Init ==
    /\ size = MaxSize
    /\ peers = <<"p1">>
    /\ registry = {"p1"}
    /\ faulty = {"p1"}
    /\ prefetchBlocks = MaxPrefetch
    /\ InitHandle
    /\ connectable = {}
    /\ IdleCallers

Next ==
    \/ \E off \in BlockStarts, n \in {1, BlockSize + 1} : Read(off, n)
    \/ Cancel
    \/ Stream(0)
    \/ StreamRead(BlockSize)
    \/ StreamClose
    \/ \E r \in Readers : ReadWait(r)
    \/ \E r \in Readers : ReadInterrupt(r)
    \/ \E r \in Readers : ReadGather(r)
    \/ \E t \in tasks : FetchPeer(t)
    \/ \E t \in tasks : FetchComplete(t)

Spec == Init /\ [][Next]_vars

\* The block indices of any handle modelled.
AllSlots == 0..(NumSlots(MaxSize + 1) - 1)

\* Spec with the scheduling the Go runtime and the peers give: a goroutine that
\* can take its next step (a Read whose marker is closed or whose wait is over,
\* a fetch whose peer call returns or which only has to store its result) is
\* not passed over for ever. The fetch of a block is one goroutine at a time.
SpecLive ==
    /\ Spec
    /\ \A r \in Readers : WF_vars(ReadWait(r) \/ ReadGather(r))
    /\ \A b \in AllSlots :
          WF_vars(\E t \in tasks : t.b = b /\ (FetchPeer(t) \/ FetchComplete(t)))

\* One direct caller, every offset up to one past the end of the content and
\* every size argument up to MaxRead.
InitRead ==
    /\ size \in Sizes
    /\ peers = <<"p1">>
    /\ registry = {"p1"}
    /\ faulty = {}
    /\ prefetchBlocks \in 0..MaxPrefetch
    /\ InitHandle
    /\ connectable = {}
    /\ IdleCallers

NextRead ==
    \/ \E off \in 0..(size + 1), n \in 0..MaxRead : Read(off, n)
    \/ Cancel
    \/ ReadWait(DirectReader)
    \/ ReadInterrupt(DirectReader)
    \/ ReadGather(DirectReader)
    \/ \E t \in tasks : FetchPeer(t)
    \/ \E t \in tasks : FetchComplete(t)

SpecRead == InitRead /\ [][NextRead]_vars

\* One stream, opened at any offset and read with any buffer length up to MaxRead.
InitStream ==
    /\ size \in Sizes
    /\ peers = <<"p1">>
    /\ registry = {"p1"}
    /\ faulty = {}
    /\ prefetchBlocks = 0
    /\ InitHandle
    /\ connectable = {}
    /\ IdleCallers

NextStream ==
    \/ ~stream.open /\ \E o \in 0..size : Stream(o)
    \/ \E L \in 1..MaxRead : StreamRead(L)
    \/ StreamClose
    \/ ReadWait(StreamReader)
    \/ ReadInterrupt(StreamReader)
    \/ ReadGather(StreamReader)
    \/ \E t \in tasks : FetchPeer(t)
    \/ \E t \in tasks : FetchComplete(t)

SpecStream == InitStream /\ [][NextStream]_vars

\* One direct caller of a handle with three candidate peers, any of which may
\* be missing from the registry (but not all) and any of which may fail.
InitFailover ==
    /\ size = MaxSize
    /\ peers = <<"p1", "p2", "p3">>
    /\ registry \in (SUBSET PeerSet) \ {{}}
    /\ faulty = PeerSet
    /\ prefetchBlocks = 0
    /\ InitHandle
    /\ connectable = {}
    /\ IdleCallers

NextFailover ==
    \/ \E off \in BlockStarts : Read(off, 1)
    \/ Cancel
    \/ ReadWait(DirectReader)
    \/ ReadInterrupt(DirectReader)
    \/ ReadGather(DirectReader)
    \/ \E t \in tasks : FetchPeer(t)
    \/ \E t \in tasks : FetchComplete(t)

SpecFailover == InitFailover /\ [][NextFailover]_vars

\* One caller of NewHandle at a time, with any candidate list, any set of
\* connectable peers and any registry that holds the peer of the handle.
InitHandles ==
    /\ size = MaxSize
    /\ peers = <<"p1">>
    /\ registry \in {reg \in SUBSET PeerSet : "p1" \in reg}
    /\ faulty = {}
    /\ prefetchBlocks = 0
    /\ InitHandle
    /\ connectable \in SUBSET PeerSet
    /\ IdleCallers

NextHandles ==
    \/ \E cands \in CandLists : NewHandleBegin("c1", cands)
    \/ NewHandleLoop("c1")
    \/ LookupDone("c1")
    \/ Connect("c1")
    \/ InsertBegin("c1")
    \/ InsertDone("c1")

SpecHandles == InitHandles /\ [][NextHandles]_vars

\* Two concurrent callers of NewHandle on the Fetcher of a handle whose second
\* candidate is not registered yet, and a caller reading block 0 of that handle.
InitFetcher ==
    /\ size = MaxSize
    /\ peers = <<"p1", "p2">>
    /\ registry = {"p1"}
    /\ faulty = {"p1"}
    /\ prefetchBlocks = 0
    /\ InitHandle
    /\ connectable = {"p2"}
    /\ IdleCallers

NextFetcher ==
    \/ \E c \in Callers, cands \in CandLists : NewHandleBegin(c, cands)
    \/ \E c \in Callers : NewHandleLoop(c)
    \/ \E c \in Callers : LookupDone(c)
    \/ \E c \in Callers : Connect(c)
    \/ \E c \in Callers : InsertBegin(c)
    \/ \E c \in Callers : InsertDone(c)
    \/ MapFault
    \/ Read(0, 1)
    \/ ReadWait(DirectReader)
    \/ ReadGather(DirectReader)
    \/ \E t \in tasks : FetchPeer(t)
    \/ \E t \in tasks : FetchComplete(t)

SpecFetcher == InitFetcher /\ [][NextFetcher]_vars

\* ------------------------------------------------------------------- claims
\* The bytes a returned Read handed to its caller.
Data(r) == IF rd[r].res = Nil THEN <<>> ELSE rd[r].res[1]

\* The fetch goroutines running for block b.
TasksOf(tks, b) == {t \in tks : t.b = b}

\* This step is reader r passing the locked first half of Read(off, n), with
\* off below the content size.
Begins(r) == rd[r].pc # "wait" /\ rd'[r].pc = "wait"

\* This step is reader r returning from Read.
Returns(r) == rd[r].pc = "wait" /\ rd'[r].pc = "ret"

\* No block read has failed so far (one candidate peer: a failed read ends the
\* fetch, and the fetch stores its error in h.lastErr, which is never reset).
NoFailure == lastErr = "nil" /\ \A t \in tasks : t.st # "failed"

RoundUp(n) == ((n + BlockSize - 1) \div BlockSize) * BlockSize

\* C1: single-flight. In every reachable state, whatever the interleaving of
\* the two Reads (with their purge and prefetch) and the fetch completions, at
\* most one fetch goroutine is running for each block index; two Reads waiting
\* for the same block wait on the one marker of the one fetch.
SingleFlight ==
    /\ \A b \in Slots : Cardinality(TasksOf(tasks, b)) <= 1
    /\ \A t \in tasks : active[t.b] = t.ch /\ t.ch \notin closed /\ cache[t.b] = Nil

\* Both readers wait for the same block and exactly one fetch runs for it.
SingleFlightWitness ==
    /\ \A r \in Readers : rd[r].pc = "wait" /\ rd[r].unf # <<>>
    /\ Head(rd[DirectReader].unf) = Head(rd[StreamReader].unf)
    /\ \E b \in Slots :
          /\ active[b] = Head(rd[DirectReader].unf)
          /\ Cardinality(TasksOf(tasks, b)) = 1

\* C2: retry after failure. Whenever a Read needs a block whose fetch has failed
\* (not cached, marker closed), it launches a new fetch for that block.
RetryAfterFailure ==
    [][\A r \in Readers :
          Begins(r) =>
             \A b \in BlockSet(rd'[r].off, rd'[r].n) :
                (cache[b] = Nil /\ active[b] # 0 /\ active[b] \in closed)
                   => TasksOf(tasks', b) # {}]_vars

\* C3: length bounds. A Read(offset, n) with offset < size and n >= 1 that
\* returns without error, no block read having failed, returns at most n rounded
\* up to a block boundary and at least min(n, size - offset) bytes.
ReadLengthBounds ==
    \A r \in Readers :
       (/\ rd[r].pc = "ret"
        /\ rd[r].err = "nil"
        /\ rd[r].off < size
        /\ rd[r].n >= 1
        /\ NoFailure)
          => /\ Len(Data(r)) <= RoundUp(rd[r].n)
             /\ Len(Data(r)) >= Min(rd[r].n, size - rd[r].off)

\* C4: the right bytes. Every Read that returns data returns content bytes in
\* content order from its offset on: byte i of the result is content byte
\* offset + i, for one block and for several.
ReadBytesRight ==
    \A r \in Readers :
       (rd[r].pc = "ret" /\ rd[r].res # Nil)
          => /\ rd[r].off + Len(Data(r)) <= size
             /\ \A i \in 1..Len(Data(r)) : Data(r)[i] = Content[rd[r].off + i]

\* A Read over several blocks, trimmed at both ends, has returned its bytes.
ReadBytesRightWitness ==
    /\ rd[DirectReader].pc = "ret"
    /\ Len(Data(DirectReader)) > 1
    /\ LastBlock(rd[DirectReader].off, rd[DirectReader].n) > FirstBlock(rd[DirectReader].off)
    /\ rd[DirectReader].off % BlockSize > 0
    /\ (rd[DirectReader].off + rd[DirectReader].n) % BlockSize > 0

\* C5: eviction. For every b >= 0, a Read whose first needed block is b + 1,
\* run while block b is cached, leaves block b not cached; and a Read that needs
\* a block that is neither cached nor marked launches a fetch for it.
EvictsPrecedingBlock ==
    [][\A r \in Readers :
          Begins(r) =>
             LET b == FirstBlock(rd'[r].off) - 1
             IN  /\ (b >= 0 /\ cache[b] # Nil) => (cache'[b] = Nil /\ active'[b] = 0)
                 /\ \A x \in BlockSet(rd'[r].off, rd'[r].n) :
                       (cache[x] = Nil /\ active[x] = 0) => TasksOf(tasks', x) # {}]_vars

\* The markers a waiting Read still has to wait for.
Waits(r) == {rd[r].unf[i] : i \in 1..Len(rd[r].unf)}

\* Reader r is blocked in Read's select on a marker that is still open, and
\* its context has been cancelled.
CancelledWhileWaiting(r) ==
    /\ rd[r].pc = "wait"
    /\ rd[r].unf # <<>>
    /\ Head(rd[r].unf) \notin closed
    /\ Cancelled(r)

\* C6: cancellation. A Read whose context is cancelled (by its caller, or by
\* pfStream.Close) while it waits on a marker that is still open can return at
\* once, and the only thing it does is return (nil, ErrInterrupted); and a Read
\* returns data only when no fetch is running for any block it needed.
InterruptedPromptly ==
    [][\A r \in Readers :
          /\ CancelledWhileWaiting(r) =>
                /\ ENABLED ReadInterrupt(r)
                /\ rd'[r] # rd[r] =>
                      /\ rd'[r].pc = "ret"
                      /\ rd'[r].err = "ErrInterrupted"
                      /\ rd'[r].res = Nil
          /\ (Returns(r) /\ rd'[r].res # Nil) =>
                \A b \in BlockSet(rd[r].off, rd[r].n) :
                   cache[b] # Nil /\ TasksOf(tasks, b) = {}]_vars

\* Both readers have returned ErrInterrupted while the fetches they waited for
\* are still running.
InterruptedPromptlyWitness ==
    \A r \in Readers :
       /\ rd[r].pc = "ret"
       /\ rd[r].err = "ErrInterrupted"
       /\ TasksOf(tasks, FirstBlock(rd[r].off)) # {}
       /\ cache[FirstBlock(rd[r].off)] = Nil

\* The fetch goroutine t has run to its end in this step.
Completes(t) == t \in tasks /\ \A u \in tasks' : u.ch # t.ch

\* C7: cancelling a waiting Read leaves the fetches alone. The interrupted
\* return changes no fetch goroutine, cache slot or marker; every running fetch
\* can still take its next step; a fetch that ends has stored its block if it got
\* one and has closed its marker; and a Read that needs a block that is cached or
\* being fetched launches no further fetch for it.
CancelLeavesFetches ==
    [][/\ \A r \in Readers :
             (Returns(r) /\ rd'[r].err = "ErrInterrupted") =>
                /\ tasks' = tasks
                /\ cache' = cache
                /\ active' = active
                /\ lastErr' = lastErr
       /\ \A t \in tasks : ENABLED (FetchPeer(t) \/ FetchComplete(t))
       /\ \A t \in tasks :
             Completes(t) =>
                /\ t.st = "got" => cache'[t.b] = t.buf
                /\ active'[t.b] = t.ch
                /\ t.ch \in closed'
       /\ \A r \in Readers :
             Begins(r) =>
                \A b \in BlockSet(rd'[r].off, rd'[r].n) :
                   (cache[b] # Nil \/ TasksOf(tasks, b) # {})
                      => TasksOf(tasks', b) = TasksOf(tasks, b)]_vars

\* The direct Read of a block was interrupted; the block is cached all the same
\* and the stream's Read of it has returned its bytes.
CancelLeavesFetchesWitness ==
    /\ rd[DirectReader].pc = "ret"
    /\ rd[DirectReader].err = "ErrInterrupted"
    /\ cache[FirstBlock(rd[DirectReader].off)] # Nil
    /\ rd[StreamReader].pc = "ret"
    /\ rd[StreamReader].res # Nil
    /\ Len(Data(StreamReader)) > 0
    /\ FirstBlock(rd[StreamReader].off) = FirstBlock(rd[DirectReader].off)

\* C8: sequential streaming. The stream never dies; after every call of its
\* read the cursor is the start offset plus the bytes handed out, those bytes
\* are the content from the start offset to the cursor, a call without EOF has
\* filled the buffer, and EOF comes with a short read at the end of the content.
StreamDelivers ==
    /\ ~panicked
    /\ (/\ stream.open
        /\ stream.start < size
        /\ ~stream.cancelled
        /\ rd[StreamReader].pc = "ret") =>
          /\ stream.offset = stream.start + Len(stream.out)
          /\ stream.offset <= size
          /\ stream.out = SubSeq(Content, stream.start + 1, stream.offset)
          /\ stream.err \in {"nil", "EOF"}
          /\ stream.err = "nil" => stream.n = rd[StreamReader].n
          /\ stream.err = "EOF" =>
                stream.n < rd[StreamReader].n /\ stream.offset = size

\* The candidate peers that have an entry in the registry, in listed order.
Registered == SelectSeq(peers, LAMBDA p : p \in registry)
IsPrefix(s, t) == Len(s) <= Len(t) /\ s = SubSeq(t, 1, Len(s))
LastErrOf(tried) == IF tried = <<>> THEN "ErrNoPeer" ELSE PeerErr(tried[Len(tried)])

\* What holds of a fetch goroutine at every moment: it has called registered
\* peers only, in listed order; the error it carries is that of the last peer
\* that failed; it has data only from the last peer called; it has given up
\* only after calling every registered candidate.
TaskInOrder(t) ==
    /\ IsPrefix(t.tried, Registered)
    /\ t.st = "run" => (Len(t.tried) < Len(Registered) /\ t.retErr = LastErrOf(t.tried))
    /\ t.st = "got" => (t.tried # <<>> /\ t.buf \in Replies(PeerRead(t.b * BlockSize)))
    /\ t.st = "failed" => (t.tried = Registered /\ t.retErr = LastErrOf(t.tried))

\* C9: failover. Every fetch calls the registered candidates in listed order
\* and stops at the first success; when it ends with data the data is stored
\* and h.lastErr stays; when it ends without, every registered candidate has
\* failed, h.lastErr becomes the error of the last one and the slot stays empty.
Failover ==
    [][/\ \A t \in tasks' : TaskInOrder(t)
       /\ \A t \in tasks :
             /\ t.st = "got" => \A u \in tasks' : u.ch = t.ch => u = t
             /\ Completes(t) =>
                   /\ t.st = "got" => (cache'[t.b] = t.buf /\ lastErr' = lastErr)
                   /\ t.st = "failed" =>
                         /\ lastErr' = PeerErr(Registered[Len(Registered)])
                         /\ cache'[t.b] = cache[t.b]]_vars

\* A fetch skipped the unregistered first candidate, failed on the second and
\* got its block from the third; an earlier fetch has failed on all of them.
FailoverWitness ==
    /\ peers[1] \notin registry
    /\ lastErr = PeerErr(peers[Len(peers)])
    /\ \E t \in tasks : t.st = "got" /\ t.tried = <<peers[2], peers[3]>>

\* C10: prefetch. The fetches a Read launches for blocks it does not need are
\* at most prefetchBlocks many, each for one of the prefetchBlocks indices
\* after its last needed block, with a start offset below the content size
\* and a slot that was neither cached nor marked; and none of their markers is
\* on the wait-list of the Read.
PrefetchOnlyAhead ==
    [][\A r \in Readers :
          Begins(r) =>
             LET last == LastBlock(rd'[r].off, rd'[r].n)
                 extra == {t \in tasks' \ tasks :
                              t.b \notin BlockSet(rd'[r].off, rd'[r].n)}
             IN  /\ Cardinality(extra) <= prefetchBlocks
                 /\ \A t \in extra :
                       /\ t.b \in (last + 1)..(last + prefetchBlocks)
                       /\ t.b * BlockSize < size
                       /\ cache[t.b] = Nil
                       /\ active[t.b] = 0
                       /\ \A i \in 1..Len(rd'[r].unf) : rd'[r].unf[i] # t.ch]_vars

\* A Read waits for the block it needs while the next block is being prefetched.
PrefetchOnlyAheadWitness ==
    /\ prefetchBlocks > 0
    /\ rd[DirectReader].pc = "wait"
    /\ rd[DirectReader].unf # <<>>
    /\ \E t \in tasks :
          /\ t.b = LastBlock(rd[DirectReader].off, rd[DirectReader].n) + 1
          /\ t.ch \notin Waits(DirectReader)

\* The candidates of caller c's NewHandle.
CandSet(call) == {call.cands[i] : i \in 1..Len(call.cands)}

\* This step is caller c returning from NewHandle.
HandleReturns(c) == nh[c].pc # "done" /\ nh'[c].pc = "done"

\* This step is the return of the NewPeer that caller c called.
PeerReturns(c) == nh[c].pc = "connect" /\ nh'[c].pc # "connect"

\* C11: handle creation. NewHandle returns its error exactly when none of the
\* candidates is resolvable (none has an entry in f.peers and none can be
\* connected to; an empty list among them) and the handle otherwise; a
\* candidate that cannot be connected to is skipped, the loop going on to the
\* next one, and gets no entry in f.peers.
HandleNeedsPeer ==
    [][/\ registry \subseteq registry'
       /\ (registry' \ registry) \subseteq connectable
       /\ \A c \in Callers :
             /\ HandleReturns(c) =>
                   /\ nh'[c].err \in {"nil", "ErrNoPeer"}
                   /\ nh'[c].err = "ErrNoPeer"
                         <=> CandSet(nh[c]) \cap (registry \cup connectable) = {}
             /\ (PeerReturns(c) /\ nh[c].cands[nh[c].i] \notin connectable) =>
                   /\ nh'[c].pc = "loop"
                   /\ nh'[c].i = nh[c].i + 1
                   /\ nh'[c].found = nh[c].found]_vars

\* NewHandle has returned a handle for a list whose first candidate could
\* not be connected to and has no entry, and whose second one got its entry in
\* this call.
HandleNeedsPeerWitness ==
    /\ nh["c1"].pc = "done"
    /\ nh["c1"].err = "nil"
    /\ Len(nh["c1"].cands) = 2
    /\ nh["c1"].cands[1] \notin registry \cup connectable
    /\ nh["c1"].cands[2] \in registry
    /\ nh["c1"].r # Nil
    /\ nh["c1"].r[1].ident = nh["c1"].cands[2]

\* C12: a failing probe. When NewPeer has connected and one of the two pings
\* of MeasureLatency fails, NewPeer returns an error, the latency of the link
\* is unset, and the link is put into f.peers all the same.
ProbeFailureSurfaced ==
    [][\A c \in Callers :
          /\ (PeerReturns(c) /\ nh'[c].probe \in {"fail1", "fail2"}) =>
                /\ nh'[c].perr # "nil"
                /\ nh'[c].r # Nil
                /\ nh'[c].r[1].latency = "unset"
          /\ (nh[c].pc = "insert" /\ nh'[c].pc # "insert"
                 /\ nh[c].probe \in {"fail1", "fail2"}) =>
                /\ nh[c].cands[nh[c].i] \in registry'
                /\ latency'[nh[c].cands[nh[c].i]] = "unset"]_vars

\* C17: the peer map is accessed under mutual exclusion. No caller of
\* NewHandle is inside the assignment f.peers[p] = r while another caller is
\* inside a lookup or an assignment, and no fetch goroutine does its lookups
\* h.fetcher.peers[p] while a caller is inside the assignment.
PeerMapExclusive ==
    [][/\ \A a \in MapWriters : MapUsers \ {a} = {}
       /\ (\E t \in tasks : t.st = "run" /\ t \notin tasks')
             => MapWriters = {}]_vars

\* C13: a Read at or beyond the end of the content. A Read(offset, n) with
\* offset >= size returns (nil, nil) and changes nothing: no fetch goroutine is
\* started, and every cache slot, every marker, the set of closed markers and
\* h.lastErr are as before.
PastEndReadIsInert ==
    [][\A r \in Readers :
          (rd[r].pc # "wait" /\ rd'[r] # rd[r] /\ rd'[r].off >= size) =>
             /\ rd'[r].pc = "ret"
             /\ rd'[r].res = Nil
             /\ rd'[r].err = "nil"
             /\ tasks' = tasks
             /\ cache' = cache
             /\ active' = active
             /\ closed' = closed
             /\ lastErr' = lastErr
             /\ panicked' = panicked]_vars

\* A Read exactly at the end of the content has returned while a block is
\* cached, another is being fetched and a closed marker is held.
PastEndReadIsInertWitness ==
    /\ rd[DirectReader].pc = "ret"
    /\ rd[DirectReader].off = size
    /\ rd[DirectReader].n > 0
    /\ rd[DirectReader].res = Nil
    /\ rd[DirectReader].err = "nil"
    /\ tasks # {}
    /\ closed # {}
    /\ \E b \in Slots : cache[b] # Nil

\* C15: the slot state machine. A cached slot b becomes empty only in the
\* locked first half of a Read whose first needed block is b + 1; no other step
\* (fetch completion, prefetch, interrupted return) empties a cached slot. While
\* a fetch of block b is running, no step of anything else changes the slot or
\* the marker of b: the slot changes only as that fetch ends, the marker not
\* at all.
SlotStateMachine ==
    [][/\ \A b \in Slots :
             (cache[b] # Nil /\ cache'[b] = Nil) =>
                \E r \in Readers : Begins(r) /\ FirstBlock(rd'[r].off) = b + 1
       /\ \A t \in tasks :
             /\ active[t.b] = t.ch
             /\ active'[t.b] = t.ch
             /\ cache'[t.b] # cache[t.b] => Completes(t)]_vars

\* The stream has read blocks 0 and 1 through the cache, block 1 has been
\* evicted since, and a fetch is running.
SlotStateMachineWitness ==
    /\ Len(stream.out) >= 2 * BlockSize
    /\ cache[1] = Nil
    /\ active[1] = 0
    /\ cache[0] # Nil
    /\ tasks # {}

\* The trailing slot: the index size / BlockSize when that division is exact.
TrailingSlot == size \div BlockSize

\* C16: the trailing slot stays unused. When the size is an exact multiple of
\* the block size, no fetch is ever launched for the index size / BlockSize, and
\* its slot and its marker stay empty.
TrailingSlotUnused ==
    (size % BlockSize = 0) =>
        /\ TasksOf(tasks, TrailingSlot) = {}
        /\ cache[TrailingSlot] = Nil
        /\ active[TrailingSlot] = 0

\* C18: index safety. No Read dies of an index out of range, and every Read
\* past its locked first half has a non-empty block list whose indices, with
\* the index purged and the indices prefetched, lie below the array length
\* size / BlockSize + 1.
ReadIndexSafe ==
    /\ ~panicked
    /\ \A r \in Readers :
          rd[r].pc = "wait" =>
             /\ FirstBlock(rd[r].off) <= LastBlock(rd[r].off, rd[r].n)
             /\ LastBlock(rd[r].off, rd[r].n) < NumSlots(size)
             /\ \A t \in tasks : t.b < NumSlots(size)

\* C19: marker close safety. The step in which a fetch goroutine ends closes
\* the marker that goroutine made: h.active[b] is that channel, it is not nil
\* and not yet closed, it is closed afterwards, no other channel becomes closed
\* and the process does not die.
MarkerCloseSafe ==
    [][\A t \in tasks :
          Completes(t) =>
             /\ t.ch # 0
             /\ active[t.b] = t.ch
             /\ t.ch \notin closed
             /\ t.ch \in closed'
             /\ closed' \ closed = {t.ch}
             /\ ~panicked']_vars

\* Block 1 was read by the stream, evicted and fetched again under a new
\* marker; that fetch has failed and closed the new marker, while the fetch of
\* block 2 has stored its block and closed its own.
MarkerCloseSafeWitness ==
    /\ Len(stream.out) >= 2 * BlockSize
    /\ cache[1] = Nil
    /\ active[1] \in closed
    /\ lastErr # "nil"
    /\ cache[2] # Nil
    /\ active[2] \in closed

\* C20: the result is never longer than the request. With the peer returning
\* full blocks (only the last block of the content short), every Read(offset, n)
\* that returns data returns exactly min(n, size - offset) bytes.
ReadLengthExact ==
    \A r \in Readers :
       (rd[r].pc = "ret" /\ rd[r].res # Nil)
          => Len(Data(r)) = Min(rd[r].n, size - rd[r].off)

\* A Read that starts inside a block and ends exactly on a block boundary has
\* returned its bytes, the last buffer untrimmed.
ReadLengthExactWitness ==
    /\ rd[DirectReader].pc = "ret"
    /\ rd[DirectReader].res # Nil
    /\ rd[DirectReader].off % BlockSize > 0
    /\ (rd[DirectReader].off + rd[DirectReader].n) % BlockSize = 0
    /\ LastBlock(rd[DirectReader].off, rd[DirectReader].n) > FirstBlock(rd[DirectReader].off)
    /\ Len(Data(DirectReader)) = rd[DirectReader].n

\* C14: liveness. With every peer call returning and every goroutine scheduled,
\* every fetch goroutine ends (closing its marker whatever the outcome) and
\* every Read that waits on markers returns.
FetchesAndReadsFinish ==
    /\ \A b \in AllSlots :
          (\E t \in tasks : t.b = b) ~> (\A t \in tasks : t.b # b)
    /\ \A r \in Readers : (rd[r].pc = "wait") ~> (rd[r].pc = "ret")

====
